---- MODULE Spec2Model ----
(***************************************************************************)
(* Model of src/midterm.py: the FIFA WWC roster pipeline run by main() and *)
(* the helper functions it calls.                                          *)
(*                                                                         *)
(* Representation                                                          *)
(*  - A Python str whose characters the code inspects (the Pos, Squad,     *)
(*    Country_Code, Gls, Sh, SoT fields and country names) is a tuple of   *)
(*    code points: "MF,DF" is <<77,70,44,68,70>>.  A str that is only      *)
(*    compared for equality (column names, the Rk/Player/Age/Born/90s      *)
(*    fields, tier labels, file names) is a TLA+ string.                   *)
(*  - A float produced by round(x, p) is the integer number of 10^-p       *)
(*    units: round(1/4, 3) = 0.25 is 250.                                  *)
(*  - List indices keep their Python (0-based) values; a list l is a       *)
(*    sequence and l[i] is written l[i+1].                                 *)
(*  - Row lists are objects: heap maps an object id to the row's current   *)
(*    fields, and the tables (players, team_china, teams, ...) are         *)
(*    sequences of ids, so two tables that hold the same row alias it.     *)
(*  - A call that may raise returns [ok, val, exc].                        *)
(***************************************************************************)
EXTENDS Integers, Sequences, FiniteSets, TLC

\* ------------------------------------------------------------------ bounds
MaxPlayers == 3      \* player rows in a roster of the pipeline
MaxRows == 3         \* rows in the argument of a helper function called alone
MaxGoals == 5        \* goals argument of calculate_shot_conversion_rate
MaxShots == 10       \* shots argument of calculate_shot_conversion_rate
MaxPrecision == 3    \* precision argument of calculate_shot_conversion_rate
MaxRate == 450       \* largest on-target rate (in 0.001) handed to the tier ladder

\* ------------------------------------------------------- program constants
TopTierMin == 400            \* conv_rate >= 0.4
UpperMiddleTierMin == 300    \* conv_rate >= 0.3
LowerMiddleTierMin == 200    \* conv_rate >= 0.2
ExpectedCountries == 32      \* assert len(countries) == 32
RowWindow == 10              \* data[i][:10]
RatePrecision == 3           \* precision passed by main()

\* ------------------------------------------------------------ code points
COMMA == <<44>>
PIPE == <<124>>
s_MF == <<77, 70>>
s_GK == <<71, 75>>
s_FW == <<70, 87>>
s_DF == <<68, 70>>
s_MF_DF == <<77, 70, 44, 68, 70>>
s_MFpDF == <<77, 70, 124, 68, 70>>
s_FW_MF == <<70, 87, 44, 77, 70>>
s_ng_Nigeria == <<110, 103, 32, 78, 105, 103, 101, 114, 105, 97>>
s_NG == <<78, 71>>
s_Nigeria == <<78, 105, 103, 101, 114, 105, 97>>
s_za_South_Africa == <<122, 97, 32, 83, 111, 117, 116, 104, 32, 65, 102, 114, 105, 99, 97>>
s_ZA == <<90, 65>>
s_South_Africa == <<83, 111, 117, 116, 104, 32, 65, 102, 114, 105, 99, 97>>
s_cn_China_PR == <<99, 110, 32, 67, 104, 105, 110, 97, 32, 80, 82>>
s_China_PR == <<67, 104, 105, 110, 97, 32, 80, 82>>
s_ma_Morocco == <<109, 97, 32, 77, 111, 114, 111, 99, 99, 111>>
s_Morocco == <<77, 111, 114, 111, 99, 99, 111>>
s_es_Spain == <<101, 115, 32, 83, 112, 97, 105, 110>>
s_es_SPAIN == <<101, 115, 32, 83, 80, 65, 73, 78>>
s_0 == <<48>>
s_1 == <<49>>
s_2 == <<50>>
s_3 == <<51>>
s_4 == <<52>>
s_5 == <<53>>
s_10 == <<49, 48>>
s_m1 == <<45, 49>>
s_x == <<120>>
s_A == <<65>>
s_a == <<97>>
s_B == <<66>>

\* ------------------------------------------------------ results of a call
Ok(v) == [ok |-> TRUE, val |-> v, exc |-> "None"]
Raise(e) == [ok |-> FALSE, val |-> <<>>, exc |-> e]

\* ------------------------------------------------------- str and list ops
Min(S) == CHOOSE x \in S : \A y \in S : x <= y

\* l[a:b] for 0 <= a, 0 <= b
PySlice(l, a, b) ==
    LET hi == IF b < Len(l) THEN b ELSE Len(l)
    IN IF a >= hi THEN <<>> ELSE SubSeq(l, a + 1, hi)

\* l.insert(i, x) for 0 <= i
ListInsert(l, i, x) ==
    LET k == IF i < Len(l) THEN i ELSE Len(l)
    IN PySlice(l, 0, k) \o <<x>> \o PySlice(l, k, Len(l))

\* x in l
Contains(l, x) == \E i \in 1..Len(l) : l[i] = x

\* l.index(x): the first position of x, ValueError when absent
ListIndex(l, x) ==
    IF Contains(l, x)
    THEN Ok(Min({i \in 1..Len(l) : l[i] = x}) - 1)
    ELSE Raise("ValueError")

CharLower(c) == IF c \in 65..90 THEN c + 32 ELSE c
CharUpper(c) == IF c \in 97..122 THEN c - 32 ELSE c
str_lower(s) == [i \in 1..Len(s) |-> CharLower(s[i])]
str_upper(s) == [i \in 1..Len(s) |-> CharUpper(s[i])]

\* s.replace(old, new) for one-character old and new
str_replace(s, old, new) ==
    [i \in 1..Len(s) |-> IF s[i] = old[1] THEN new[1] ELSE s[i]]

\* s.split(sep) for a one-character sep: the pieces between the separators
RECURSIVE split_loop(_, _, _, _, _)
split_loop(s, sep, i, cur, acc) ==
    IF i > Len(s) THEN Append(acc, cur)
    ELSE IF s[i] = sep[1] THEN split_loop(s, sep, i + 1, <<>>, Append(acc, cur))
    ELSE split_loop(s, sep, i + 1, Append(cur, s[i]), acc)

str_split(s, sep) == split_loop(s, sep, 1, <<>>, <<>>)

\* a < b on str: lexicographic on code points
StrLT(a, b) ==
    LET n == IF Len(a) < Len(b) THEN Len(a) ELSE Len(b)
        D == {i \in 1..n : a[i] # b[i]}
    IN IF D = {} THEN Len(a) < Len(b) ELSE a[Min(D)] < b[Min(D)]

\* int(s) on an optional sign followed by ASCII digits; any other str of the
\* model's inputs ("x", "") is not an integer literal and raises ValueError
IsDigit(c) == c \in 48..57

RECURSIVE DigitsValue(_, _, _)
DigitsValue(s, i, acc) ==
    IF i > Len(s) THEN acc ELSE DigitsValue(s, i + 1, 10 * acc + (s[i] - 48))

ParseInt(s) ==
    LET signed == Len(s) > 0 /\ s[1] \in {43, 45}
        digits == IF signed THEN PySlice(s, 1, Len(s)) ELSE s
    IN IF Len(digits) = 0 \/ \E i \in 1..Len(digits) : ~IsDigit(digits[i])
       THEN Raise("ValueError")
       ELSE Ok(IF signed /\ s[1] = 45 THEN 0 - DigitsValue(digits, 1, 0)
               ELSE DigitsValue(digits, 1, 0))

\* ----------------------------------------------------------- float model
RECURSIVE Pow10(_)
Pow10(p) == IF p = 0 THEN 1 ELSE 10 * Pow10(p - 1)

\* goals / shots: the quotient as a fraction, ZeroDivisionError when shots == 0
TrueDiv(goals, shots) ==
    IF shots = 0 THEN Raise("ZeroDivisionError") ELSE Ok(<<goals, shots>>)

\* round(n/d, precision) in units of 10^-precision, ties to even.  The ties
\* n/d can hit with |d| < 20, or with |d| < 80 and precision = 3, are dyadic
\* fractions, which a float holds exactly, so round() sees the tie and
\* rounds it to even.
PyRound(q, precision) ==
    LET n == IF q[2] < 0 THEN 0 - q[1] * Pow10(precision) ELSE q[1] * Pow10(precision)
        d == IF q[2] < 0 THEN 0 - q[2] ELSE q[2]
        f == n \div d
        r == n - f * d
    IN IF 2 * r < d THEN f
       ELSE IF 2 * r > d THEN f + 1
       ELSE IF f % 2 = 0 THEN f ELSE f + 1

\* ------------------------------------------------------- helper functions
calculate_shot_conversion_rate_propagates(goals, shots, precision) ==
    LET q == TrueDiv(goals, shots)
    IN IF q.ok THEN Ok(PyRound(q.val, precision)) ELSE q

calculate_shot_conversion_rate(goals, shots, precision) ==
    LET q == TrueDiv(goals, shots)
    IN IF q.ok THEN Ok(PyRound(q.val, precision))
       ELSE IF q.exc = "ZeroDivisionError" THEN Ok(0)
       ELSE q

clean_squad(squad) ==
    <<str_upper(PySlice(squad, 0, 2)), PySlice(squad, 3, Len(squad))>>

format_player_position(position) == str_replace(position, COMMA, PIPE)

get_multi_position_players(plist, pos, H) ==
    SelectSeq(plist, LAMBDA p : Len(str_split(H[p][pos + 1], PIPE)) > 1)

\* player[slice_] then int() of each element in turn
RECURSIVE shooting_loop(_, _)
shooting_loop(shooting_numbers, i) ==
    IF i > Len(shooting_numbers) THEN Ok(shooting_numbers)
    ELSE LET n == ParseInt(shooting_numbers[i])
         IN IF n.ok
            THEN shooting_loop([shooting_numbers EXCEPT ![i] = n.val], i + 1)
            ELSE n

get_player_shooting_numbers(player, sl) ==
    shooting_loop(PySlice(player, sl[1], sl[2]), 1)

get_team(plist, sq_idx, squad, H) ==
    SelectSeq(plist, LAMBDA p : str_lower(H[p][sq_idx + 1]) = str_lower(squad))

RECURSIVE team_names_loop(_, _, _, _, _)
team_names_loop(plist, sq_idx, H, i, team_names) ==
    IF i > Len(plist) THEN team_names
    ELSE LET name == H[plist[i]][sq_idx + 1]
         IN team_names_loop(plist, sq_idx, H, i + 1,
                IF ~Contains(team_names, name)
                THEN Append(team_names, name) ELSE team_names)

RECURSIVE team_names_loop_keep_last(_, _, _, _, _)
team_names_loop_keep_last(plist, sq_idx, H, i, team_names) ==
    IF i > Len(plist) THEN team_names
    ELSE LET name == H[plist[i]][sq_idx + 1]
         IN team_names_loop_keep_last(plist, sq_idx, H, i + 1,
                Append(SelectSeq(team_names, LAMBDA t : t # name), name))

get_team_names_keep_last(plist, sq_idx, H) ==
    team_names_loop_keep_last(plist, sq_idx, H, 1, <<>>)

get_team_names(plist, sq_idx, H) == team_names_loop(plist, sq_idx, H, 1, <<>>)

\* the three-name unpacking of get_player_shooting_numbers' result raises
\* ValueError unless it has exactly three elements
Unpack3(r) ==
    IF ~r.ok THEN r ELSE IF Len(r.val) = 3 THEN r ELSE Raise("ValueError")

RECURSIVE team_shooting_loop(_, _, _, _, _)
team_shooting_loop(team, sl, H, i, counts) ==
    IF i > Len(team) THEN Ok(counts)
    ELSE LET n == Unpack3(get_player_shooting_numbers(H[team[i]], sl))
         IN IF n.ok
            THEN team_shooting_loop(team, sl, H, i + 1,
                     <<counts[1] + n.val[1], counts[2] + n.val[2], counts[3] + n.val[3]>>)
            ELSE n

get_team_shooting_numbers(team, sl, H) == team_shooting_loop(team, sl, H, 1, <<0, 0, 0>>)

RECURSIVE top_scorer_loop(_, _, _, _, _, _)
top_scorer_loop(plist, g_idx, H, i, scorers, high_score) ==
    IF i > Len(plist) THEN Ok(scorers)
    ELSE LET goals == ParseInt(H[plist[i]][g_idx + 1])
         IN IF ~goals.ok THEN goals
            ELSE IF goals.val > high_score /\ goals.val > 0
                 THEN top_scorer_loop(plist, g_idx, H, i + 1, <<plist[i]>>, goals.val)
            ELSE IF goals.val = high_score /\ goals.val > 0
                 THEN top_scorer_loop(plist, g_idx, H, i + 1, Append(scorers, plist[i]), high_score)
            ELSE top_scorer_loop(plist, g_idx, H, i + 1, scorers, high_score)

RECURSIVE top_scorer_loop_first_only(_, _, _, _, _, _)
top_scorer_loop_first_only(plist, g_idx, H, i, scorers, high_score) ==
    IF i > Len(plist) THEN Ok(scorers)
    ELSE LET goals == ParseInt(H[plist[i]][g_idx + 1])
         IN IF ~goals.ok THEN goals
            ELSE IF goals.val > high_score /\ goals.val > 0
                 THEN top_scorer_loop_first_only(plist, g_idx, H, i + 1, <<plist[i]>>, goals.val)
            ELSE top_scorer_loop_first_only(plist, g_idx, H, i + 1, scorers, high_score)

get_top_scorer_first_only(plist, g_idx, H) ==
    top_scorer_loop_first_only(plist, g_idx, H, 1, <<>>, 0)

get_top_scorer(plist, g_idx, H) == top_scorer_loop(plist, g_idx, H, 1, <<>>, 0)

\* sorted(items, key=...) with keys[i] the key of items[i], a tuple
\* (number, str): a stable sort, each item placed after the items already
\* placed whose key is not greater
KeyLT(a, b) == a[1] < b[1] \/ (a[1] = b[1] /\ StrLT(a[2], b[2]))

RECURSIVE sort_loop(_, _, _)
sort_loop(keys, i, order) ==
    IF i > Len(keys) THEN order
    ELSE LET later == {j \in 1..Len(order) : KeyLT(keys[i], keys[order[j]])}
             at == IF later = {} THEN Len(order) ELSE Min(later) - 1
         IN sort_loop(keys, i + 1, ListInsert(order, at, i))

py_sorted(items, keys) ==
    LET order == sort_loop(keys, 1, <<>>)
    IN [j \in 1..Len(items) |-> items[order[j]]]

\* csv.writer on a fresh file: the header row when headers is truthy, then
\* one line per row of data; the result is the file's lines
write_csv(rows, hdr) == IF hdr # <<>> THEN <<hdr>> \o rows ELSE rows

\* ------------------------------------------------------------------ state
VARIABLES
    csv_in,     \* rows of data-2023-fifa_wwc-players.csv as csv.reader yields them
    debug,      \* __debug__: FALSE under python -O, which strips the asserts
    pc,         \* the step of main() to run next (or that raised), "done" at the end
    exc,        \* the exception that ended the run, "None" otherwise
    heap,       \* list objects (header row, player rows, team records) by id
    data, headers, players,
    pos_idx, squad_idx, gls_idx, slice_,
    multi_position_players, team_china, team_morocco,
    countries, top_scorers, team_top_scorers,
    gss,        \* goals, shots, shots_on_target
    team_headers, teams,
    files,      \* file name -> lines written by write_csv
    handed,     \* file name -> the table object(s) passed to write_csv as data
    args, result    \* argument and result of a helper function called alone

vars == <<csv_in, debug, pc, exc, heap, data, headers, players,
          pos_idx, squad_idx, gls_idx, slice_,
          multi_position_players, team_china, team_morocco,
          countries, top_scorers, team_top_scorers, gss,
          team_headers, teams, files, handed, args, result>>

StdHeader == <<"Rk", "Player", "Pos", "Squad", "Age", "Born", "90s", "Gls", "Sh", "SoT">>
NoPosHeader == <<"Rk", "Player", "Position", "Squad", "Age", "Born", "90s", "Gls", "Sh", "SoT">>
NoGlsHeader == <<"Rk", "Player", "Pos", "Squad", "Age", "Born", "90s", "Goals", "Sh", "SoT">>
Zornoza == <<"619", "Claudia Zornoza", s_MF, s_es_Spain, "32", "1990", "0.4", s_0, s_0, s_0>>

\* the player rows a roster of the model is drawn from
RowChoices ==
    { <<"1", "Ada", s_FW, s_cn_China_PR, "25", "1998", "3.0", s_1, s_10, s_4>>,
      <<"2", "Bea", s_MF_DF, s_ma_Morocco, "27", "1996", "2.5", s_2, s_5, s_2>>,
      <<"3", "Cleo", s_DF, s_es_SPAIN, "22", "2001", "1.0", s_1, s_3, s_0>>,
      <<"4", "Dana", s_GK, s_cn_China_PR, "30", "1993", "3.0", s_x, s_1, s_1>>,
      <<"5", "Eli", s_FW_MF, s_ma_Morocco, "24", "1999", "2.0", s_2, s_x, s_1>>,
      Zornoza }

\* the input file: a header row, the player rows, and possibly a further
\* column to the right of SoT
InputTable(hdr, roster, extra) ==
    IF extra THEN <<Append(hdr, "SoT%")>> \o [i \in 1..Len(roster) |-> Append(roster[i], "40.0")]
    ELSE <<hdr>> \o roster

Files == {"stu-players.csv", "stu-players-multi_position.csv", "stu-team-china.csv",
          "stu-team-morocco.csv", "stu-team-top_scorers.csv",
          "stu-players-shooting_efficiency.csv", "stu-team-shooting_efficiency.csv",
          "stu-team-shooting-efficiency_ratings.csv"}

Unset ==
    /\ heap = <<>> /\ data = <<>> /\ headers = 0 /\ players = <<>>
    /\ pos_idx = -1 /\ squad_idx = -1 /\ gls_idx = -1 /\ slice_ = <<>>
    /\ multi_position_players = <<>> /\ team_china = <<>> /\ team_morocco = <<>>
    /\ countries = <<>> /\ top_scorers = <<>> /\ team_top_scorers = <<>>
    /\ gss = <<>> /\ team_headers = <<>> /\ teams = <<>>
    /\ files = <<>> /\ handed = <<>>
    /\ exc = "None"

Init ==
    /\ \E hdr \in {StdHeader, NoPosHeader, NoGlsHeader}, n \in 1..MaxPlayers, extra \in BOOLEAN :
           \E roster \in [1..n -> RowChoices] : csv_in = InputTable(hdr, roster, extra)
    /\ debug \in BOOLEAN
    /\ pc = "1.2"
    /\ Unset
    /\ args = <<>> /\ result = <<>>

idxVars == <<pos_idx, squad_idx, gls_idx, slice_>>
subsetVars == <<multi_position_players, team_china, team_morocco>>
scorerVars == <<countries, top_scorers, team_top_scorers>>
teamVars == <<team_headers, teams>>
outVars == <<files, handed>>
fnVars == <<args, result>>
envVars == <<csv_in, debug>>

\* control is at step l and no exception has ended the run
At(l) == pc = l /\ exc = "None"
Goto(l) == pc' = l /\ exc' = "None"
\* an uncaught exception ends the run at the step that raised it
Fail(e) == pc' = pc /\ exc' = e

\* the rows of a table of row objects
Rows(ids, H) == [i \in 1..Len(ids) |-> H[ids[i]]]
\* the rows of a table whose rows are lists of row objects
NestedRows(lists, H) == [i \in 1..Len(lists) |-> Rows(lists[i], H)]

Emit_nothing(f, lines, table) == UNCHANGED <<files, handed>>

\* write_csv(f, data, headers) as main() calls it: the file holds the lines
\* written, and the list passed as data stays reachable from main()
Emit(f, lines, table) ==
    /\ files' = (f :> lines) @@ files
    /\ handed' = (f :> table) @@ handed

\* ----------------------------------------------------------- CHALLENGE 01
\* 1.2 data = read_csv(filepath): one new list per line of the file
Step_1_2 ==
    /\ At("1.2")
    /\ heap' = csv_in
    /\ data' = [i \in 1..Len(csv_in) |-> i]
    /\ Goto("1.3")
    /\ UNCHANGED <<envVars, headers, players, idxVars, subsetVars, scorerVars, gss,
                   teamVars, outVars, fnVars>>

\* 1.3 data[i] = data[i][:10]
Step_1_3 ==
    /\ At("1.3")
    /\ heap' = [i \in 1..Len(heap) |-> PySlice(heap[i], 0, RowWindow)]
    /\ Goto("1.4")
    /\ UNCHANGED <<envVars, data, headers, players, idxVars, subsetVars, scorerVars, gss,
                   teamVars, outVars, fnVars>>

\* 1.4 the two asserts on data[0] and data[-1]
Step_1_4 ==
    /\ At("1.4")
    /\ IF debug /\ ~(heap[data[1]] = StdHeader /\ heap[data[Len(data)]] = Zornoza)
       THEN Fail("AssertionError") ELSE Goto("1.5")
    /\ UNCHANGED <<envVars, heap, data, headers, players, idxVars, subsetVars, scorerVars,
                   gss, teamVars, outVars, fnVars>>

\* 1.5 headers = data[0]; players = data[1:]
Step_1_5 ==
    /\ At("1.5")
    /\ headers' = data[1]
    /\ players' = PySlice(data, 1, Len(data))
    /\ Goto("2.1")
    /\ UNCHANGED <<envVars, heap, data, idxVars, subsetVars, scorerVars, gss,
                   teamVars, outVars, fnVars>>

\* ----------------------------------------------------------- CHALLENGE 02
Step_2_1 ==
    /\ At("2.1")
    /\ IF debug /\ ~(s_MFpDF = format_player_position(s_MF_DF)
                     /\ s_GK = format_player_position(s_GK))
       THEN Fail("AssertionError") ELSE Goto("2.2")
    /\ UNCHANGED <<envVars, heap, data, headers, players, idxVars, subsetVars, scorerVars,
                   gss, teamVars, outVars, fnVars>>

Step_2_2 ==
    /\ At("2.2")
    /\ IF debug /\ ~(<<s_NG, s_Nigeria>> = clean_squad(s_ng_Nigeria)
                     /\ <<s_ZA, s_South_Africa>> = clean_squad(s_za_South_Africa))
       THEN Fail("AssertionError") ELSE Goto("3.1")
    /\ UNCHANGED <<envVars, heap, data, headers, players, idxVars, subsetVars, scorerVars,
                   gss, teamVars, outVars, fnVars>>

\* ----------------------------------------------------------- CHALLENGE 03
\* 3.1 pos_idx = headers.index("Pos"); squad_idx = headers.index("Squad")
Step_3_1 ==
    /\ At("3.1")
    /\ LET p == ListIndex(heap[headers], "Pos")
           s == ListIndex(heap[headers], "Squad")
       IN IF ~p.ok THEN Fail(p.exc) /\ UNCHANGED <<pos_idx, squad_idx>>
          ELSE IF ~s.ok THEN Fail(s.exc) /\ pos_idx' = p.val /\ UNCHANGED squad_idx
          ELSE Goto("3.2") /\ pos_idx' = p.val /\ squad_idx' = s.val
    /\ UNCHANGED <<envVars, heap, data, headers, players, gls_idx, slice_, subsetVars,
                   scorerVars, gss, teamVars, outVars, fnVars>>

\* the body of the 3.2 loop on one row
normalize_player(player, pos, sq_idx) ==
    LET p1 == [player EXCEPT ![pos + 1] = format_player_position(player[pos + 1])]
        cs == clean_squad(p1[sq_idx + 1])
        p2 == ListInsert(p1, sq_idx, cs[1])
        new_squad_idx == sq_idx + 1
    IN [p2 EXCEPT ![new_squad_idx + 1] = cs[2]]

Step_3_2 ==
    /\ At("3.2")
    /\ heap' = [i \in 1..Len(heap) |->
                   IF Contains(players, i) THEN normalize_player(heap[i], pos_idx, squad_idx)
                   ELSE heap[i]]
    /\ Goto("3.3")
    /\ UNCHANGED <<envVars, data, headers, players, idxVars, subsetVars, scorerVars, gss,
                   teamVars, outVars, fnVars>>

\* 3.3 headers.insert(squad_idx, "Country_Code")
Step_3_3 ==
    /\ At("3.3")
    /\ heap' = [heap EXCEPT ![headers] = ListInsert(heap[headers], squad_idx, "Country_Code")]
    /\ Goto("3.4")
    /\ UNCHANGED <<envVars, data, headers, players, idxVars, subsetVars, scorerVars, gss,
                   teamVars, outVars, fnVars>>

\* 3.4 squad_idx += 1
incr_squad_idx_missing(i) == i

incr_squad_idx(i) == i + 1

Step_3_4 ==
    /\ At("3.4")
    /\ squad_idx' = incr_squad_idx(squad_idx)
    /\ Goto("3.4w")
    /\ UNCHANGED <<envVars, heap, data, headers, players, pos_idx, gls_idx, slice_,
                   subsetVars, scorerVars, gss, teamVars, outVars, fnVars>>

Step_3_4w ==
    /\ At("3.4w")
    /\ Emit("stu-players.csv", write_csv(Rows(players, heap), heap[headers]), players)
    /\ Goto("4.2")
    /\ UNCHANGED <<envVars, heap, data, headers, players, idxVars, subsetVars, scorerVars,
                   gss, teamVars, fnVars>>

\* ----------------------------------------------------------- CHALLENGE 04
Step_4_2 ==
    /\ At("4.2")
    /\ multi_position_players' = get_multi_position_players(players, pos_idx, heap)
    /\ Goto("4.3")
    /\ UNCHANGED <<envVars, heap, data, headers, players, idxVars, team_china, team_morocco,
                   scorerVars, gss, teamVars, outVars, fnVars>>

Step_4_3 ==
    /\ At("4.3")
    /\ Emit("stu-players-multi_position.csv",
            write_csv(Rows(multi_position_players, heap), heap[headers]),
            multi_position_players)
    /\ Goto("5.2")
    /\ UNCHANGED <<envVars, heap, data, headers, players, idxVars, subsetVars, scorerVars,
                   gss, teamVars, fnVars>>

\* ----------------------------------------------------------- CHALLENGE 05
Step_5_2 ==
    /\ At("5.2")
    /\ team_china' = get_team(players, squad_idx, s_China_PR, heap)
    /\ Goto("5.3")
    /\ UNCHANGED <<envVars, heap, data, headers, players, idxVars, multi_position_players,
                   team_morocco, scorerVars, gss, teamVars, outVars, fnVars>>

Step_5_3 ==
    /\ At("5.3")
    /\ Emit("stu-team-china.csv", write_csv(Rows(team_china, heap), heap[headers]), team_china)
    /\ Goto("5.5")
    /\ UNCHANGED <<envVars, heap, data, headers, players, idxVars, subsetVars, scorerVars,
                   gss, teamVars, fnVars>>

Step_5_5 ==
    /\ At("5.5")
    /\ team_morocco' = get_team(players, squad_idx, s_Morocco, heap)
    /\ Goto("5.6")
    /\ UNCHANGED <<envVars, heap, data, headers, players, idxVars, multi_position_players,
                   team_china, scorerVars, gss, teamVars, outVars, fnVars>>

Step_5_6 ==
    /\ At("5.6")
    /\ Emit("stu-team-morocco.csv", write_csv(Rows(team_morocco, heap), heap[headers]),
            team_morocco)
    /\ Goto("6.2")
    /\ UNCHANGED <<envVars, heap, data, headers, players, idxVars, subsetVars, scorerVars,
                   gss, teamVars, fnVars>>

\* ----------------------------------------------------------- CHALLENGE 06
Step_6_2 ==
    /\ At("6.2")
    /\ countries' = get_team_names(players, squad_idx, heap)
    /\ Goto("6.3")
    /\ UNCHANGED <<envVars, heap, data, headers, players, idxVars, subsetVars, top_scorers,
                   team_top_scorers, gss, teamVars, outVars, fnVars>>

\* 6.3 countries.sort()
Step_6_3 ==
    /\ At("6.3")
    /\ countries' = py_sorted(countries, [i \in 1..Len(countries) |-> <<0, countries[i]>>])
    /\ Goto("6.4")
    /\ UNCHANGED <<envVars, heap, data, headers, players, idxVars, subsetVars, top_scorers,
                   team_top_scorers, gss, teamVars, outVars, fnVars>>

\* 6.4 assert len(countries) == 32
Step_6_4 ==
    /\ At("6.4")
    /\ IF debug /\ ~(Len(countries) = ExpectedCountries)
       THEN Fail("AssertionError") ELSE Goto("7.2")
    /\ UNCHANGED <<envVars, heap, data, headers, players, idxVars, subsetVars, scorerVars,
                   gss, teamVars, outVars, fnVars>>

\* ----------------------------------------------------------- CHALLENGE 07
Step_7_2 ==
    /\ At("7.2")
    /\ LET g == ListIndex(heap[headers], "Gls")
       IN IF g.ok THEN Goto("7.3") /\ gls_idx' = g.val
          ELSE Fail(g.exc) /\ UNCHANGED gls_idx
    /\ UNCHANGED <<envVars, heap, data, headers, players, pos_idx, squad_idx, slice_,
                   subsetVars, scorerVars, gss, teamVars, outVars, fnVars>>

Step_7_3 ==
    /\ At("7.3")
    /\ LET t == get_top_scorer(players, gls_idx, heap)
       IN IF t.ok THEN Goto("8.1") /\ top_scorers' = t.val
          ELSE Fail(t.exc) /\ UNCHANGED top_scorers
    /\ UNCHANGED <<envVars, heap, data, headers, players, idxVars, subsetVars, countries,
                   team_top_scorers, gss, teamVars, outVars, fnVars>>

\* ----------------------------------------------------------- CHALLENGE 08
\* 8.1-5 the loop over countries; top is the binding of top_scorers
RECURSIVE team_top_scorers_loop(_, _, _, _, _, _, _, _)
team_top_scorers_loop(names, plist, sq_idx, g_idx, H, i, acc, top) ==
    IF i > Len(names) THEN [ok |-> TRUE, exc |-> "None", acc |-> acc, top |-> top]
    ELSE LET team == get_team(plist, sq_idx, names[i], H)
             t == get_top_scorer(team, g_idx, H)
         IN IF t.ok
            THEN team_top_scorers_loop(names, plist, sq_idx, g_idx, H, i + 1,
                                       Append(acc, t.val), t.val)
            ELSE [ok |-> FALSE, exc |-> t.exc, acc |-> acc, top |-> top]

Step_8_1 ==
    /\ At("8.1")
    /\ LET r == team_top_scorers_loop(countries, players, squad_idx, gls_idx, heap, 1,
                                      <<>>, top_scorers)
       IN /\ team_top_scorers' = r.acc
          /\ top_scorers' = r.top
          /\ IF r.ok THEN Goto("8.6") ELSE Fail(r.exc)
    /\ UNCHANGED <<envVars, heap, data, headers, players, idxVars, subsetVars, countries,
                   gss, teamVars, outVars, fnVars>>

Step_8_6 ==
    /\ At("8.6")
    /\ Emit("stu-team-top_scorers.csv",
            write_csv(NestedRows(team_top_scorers, heap), heap[headers]), team_top_scorers)
    /\ Goto("9.2")
    /\ UNCHANGED <<envVars, heap, data, headers, players, idxVars, subsetVars, scorerVars,
                   gss, teamVars, fnVars>>

\* ----------------------------------------------------------- CHALLENGE 09
\* 9.2 slice_ = slice(gls_idx, len(headers))
Step_9_2 ==
    /\ At("9.2")
    /\ slice_' = <<gls_idx, Len(heap[headers])>>
    /\ Goto("9.3")
    /\ UNCHANGED <<envVars, heap, data, headers, players, pos_idx, squad_idx, gls_idx,
                   subsetVars, scorerVars, gss, teamVars, outVars, fnVars>>

\* 9.3 goals, shots, shots_on_target = get_player_shooting_numbers(players[0], slice_)
Step_9_3 ==
    /\ At("9.3")
    /\ LET n == IF Len(players) = 0 THEN Raise("IndexError")
                ELSE Unpack3(get_player_shooting_numbers(heap[players[1]], slice_))
       IN IF n.ok THEN Goto("9.4") /\ gss' = n.val
          ELSE Fail(n.exc) /\ UNCHANGED gss
    /\ UNCHANGED <<envVars, heap, data, headers, players, idxVars, subsetVars, scorerVars,
                   teamVars, outVars, fnVars>>

\* 9.4 assert goals == 1; assert shots == 10; assert shots_on_target == 4
Step_9_4 ==
    /\ At("9.4")
    /\ IF debug /\ ~(gss[1] = 1 /\ gss[2] = 10 /\ gss[3] = 4)
       THEN Fail("AssertionError") ELSE Goto("10.2")
    /\ UNCHANGED <<envVars, heap, data, headers, players, idxVars, subsetVars, scorerVars,
                   gss, teamVars, outVars, fnVars>>

\* ----------------------------------------------------------- CHALLENGE 10
\* player.append(x)
append_field_truncating(row, x) == Append(SubSeq(row, 1, Len(row) - 2), x)

append_field(row, x) == Append(row, x)

\* 10.2-4 the loop over players; g is the binding of goals, shots, shots_on_target
RECURSIVE efficiency_loop(_, _, _, _, _)
efficiency_loop(plist, sl, H, i, g) ==
    IF i > Len(plist) THEN [ok |-> TRUE, exc |-> "None", H |-> H, gss |-> g]
    ELSE LET n == Unpack3(get_player_shooting_numbers(H[plist[i]], sl))
         IN IF ~n.ok THEN [ok |-> FALSE, exc |-> n.exc, H |-> H, gss |-> g]
            ELSE LET conversion_rate ==
                         calculate_shot_conversion_rate(n.val[1], n.val[2], RatePrecision)
                 IN IF ~conversion_rate.ok
                    THEN [ok |-> FALSE, exc |-> conversion_rate.exc, H |-> H, gss |-> n.val]
                    ELSE LET H1 == [H EXCEPT ![plist[i]] =
                                        append_field(H[plist[i]], conversion_rate.val)]
                             on_target_conversion_rate ==
                                 calculate_shot_conversion_rate(n.val[1], n.val[3], RatePrecision)
                         IN IF ~on_target_conversion_rate.ok
                            THEN [ok |-> FALSE, exc |-> on_target_conversion_rate.exc,
                                  H |-> H1, gss |-> n.val]
                            ELSE efficiency_loop(plist, sl,
                                     [H1 EXCEPT ![plist[i]] =
                                         append_field(H1[plist[i]], on_target_conversion_rate.val)],
                                     i + 1, n.val)

Step_10_2 ==
    /\ At("10.2")
    /\ LET r == efficiency_loop(players, slice_, heap, 1, gss)
       IN /\ heap' = r.H
          /\ gss' = r.gss
          /\ IF r.ok THEN Goto("10.5") ELSE Fail(r.exc)
    /\ UNCHANGED <<envVars, data, headers, players, idxVars, subsetVars, scorerVars,
                   teamVars, outVars, fnVars>>

\* 10.5 headers.extend(["shots_conv_rate", "shots_on_target_conv_rate"])
Step_10_5 ==
    /\ At("10.5")
    /\ heap' = [heap EXCEPT ![headers] =
                    heap[headers] \o <<"shots_conv_rate", "shots_on_target_conv_rate">>]
    /\ Goto("10.6")
    /\ UNCHANGED <<envVars, data, headers, players, idxVars, subsetVars, scorerVars, gss,
                   teamVars, outVars, fnVars>>

Step_10_6 ==
    /\ At("10.6")
    /\ Emit("stu-players-shooting_efficiency.csv",
            write_csv(Rows(players, heap), heap[headers]), players)
    /\ Goto("11.2")
    /\ UNCHANGED <<envVars, heap, data, headers, players, idxVars, subsetVars, scorerVars,
                   gss, teamVars, fnVars>>

\* ----------------------------------------------------------- CHALLENGE 11
Step_11_2 ==
    /\ At("11.2")
    /\ team_headers' = <<"country", "goals", "shots", "shots_on_target",
                         "shots_conv_rate", "shots_on_target_conv_rate">>
    /\ Goto("11.3")
    /\ UNCHANGED <<envVars, heap, data, headers, players, idxVars, subsetVars, scorerVars,
                   gss, teams, outVars, fnVars>>

\* 11.3-7 the loop over get_team_names(players, squad_idx): each team_metrics
\* is a new list object; g is the binding of goals, shots, shots_on_target
RECURSIVE team_metrics_loop(_, _, _, _, _, _, _, _)
team_metrics_loop(names, plist, sq_idx, sl, H, i, acc, g) ==
    IF i > Len(names) THEN [ok |-> TRUE, exc |-> "None", H |-> H, teams |-> acc, gss |-> g]
    ELSE LET country == names[i]
             team == get_team(plist, sq_idx, country, H)
             n == get_team_shooting_numbers(team, sl, H)
         IN IF ~n.ok THEN [ok |-> FALSE, exc |-> n.exc, H |-> H, teams |-> acc, gss |-> g]
            ELSE LET c1 == calculate_shot_conversion_rate(n.val[1], n.val[2], RatePrecision)
                     c2 == calculate_shot_conversion_rate(n.val[1], n.val[3], RatePrecision)
                 IN IF ~c1.ok
                    THEN [ok |-> FALSE, exc |-> c1.exc, H |-> H, teams |-> acc, gss |-> n.val]
                    ELSE IF ~c2.ok
                    THEN [ok |-> FALSE, exc |-> c2.exc, H |-> H, teams |-> acc, gss |-> n.val]
                    ELSE LET team_metrics == <<country, n.val[1], n.val[2], n.val[3],
                                               c1.val, c2.val>>
                         IN team_metrics_loop(names, plist, sq_idx, sl,
                                Append(H, team_metrics), i + 1,
                                Append(acc, Len(H) + 1), n.val)

build_teams(plist, sq_idx, sl, H, g) ==
    team_metrics_loop(get_team_names(plist, sq_idx, H), plist, sq_idx, sl, H, 1, <<>>, g)

Step_11_3 ==
    /\ At("11.3")
    /\ LET r == build_teams(players, squad_idx, slice_, heap, gss)
       IN /\ heap' = r.H
          /\ teams' = r.teams
          /\ gss' = r.gss
          /\ IF r.ok THEN Goto("11.8") ELSE Fail(r.exc)
    /\ UNCHANGED <<envVars, data, headers, players, idxVars, subsetVars, scorerVars,
                   team_headers, outVars, fnVars>>

Step_11_8 ==
    /\ At("11.8")
    /\ Emit("stu-team-shooting_efficiency.csv",
            write_csv(Rows(teams, heap), team_headers), teams)
    /\ Goto("12.1")
    /\ UNCHANGED <<envVars, heap, data, headers, players, idxVars, subsetVars, scorerVars,
                   gss, teamVars, fnVars>>

\* ----------------------------------------------------------- CHALLENGE 12
\* the if/elif ladder of 12.1-2 on conv_rate = float(team[-1])
efficiency_rating_exclusive(conv_rate) ==
    IF conv_rate > TopTierMin THEN "Top Tier"
    ELSE IF conv_rate > UpperMiddleTierMin THEN "Upper Middle Tier"
    ELSE IF conv_rate > LowerMiddleTierMin THEN "Lower Middle Tier"
    ELSE "Bottom Tier"

efficiency_rating(conv_rate) ==
    IF conv_rate >= TopTierMin THEN "Top Tier"
    ELSE IF conv_rate >= UpperMiddleTierMin THEN "Upper Middle Tier"
    ELSE IF conv_rate >= LowerMiddleTierMin THEN "Lower Middle Tier"
    ELSE "Bottom Tier"

\* 12.1-2 for team in teams: team.append(rating)
rate_teams(tms, H) ==
    [i \in 1..Len(H) |->
        IF Contains(tms, i)
        THEN append_field(H[i], efficiency_rating(H[i][Len(H[i])]))
        ELSE H[i]]

Step_12_1 ==
    /\ At("12.1")
    /\ heap' = rate_teams(teams, heap)
    /\ Goto("12.3")
    /\ UNCHANGED <<envVars, data, headers, players, idxVars, subsetVars, scorerVars, gss,
                   teamVars, outVars, fnVars>>

Step_12_3 ==
    /\ At("12.3")
    /\ team_headers' = Append(team_headers, "efficiency_rating")
    /\ Goto("12.4")
    /\ UNCHANGED <<envVars, heap, data, headers, players, idxVars, subsetVars, scorerVars,
                   gss, teams, outVars, fnVars>>

\* 12.4 key=lambda x: (-float(x[-2]), x[0])
team_sort_key_ascending(x) == <<x[Len(x) - 1], x[1]>>

team_sort_key(x) == <<0 - x[Len(x) - 1], x[1]>>

rank_teams(tms, H) == py_sorted(tms, [i \in 1..Len(tms) |-> team_sort_key(H[tms[i]])])

Step_12_4 ==
    /\ At("12.4")
    /\ teams' = rank_teams(teams, heap)
    /\ Goto("12.5")
    /\ UNCHANGED <<envVars, heap, data, headers, players, idxVars, subsetVars, scorerVars,
                   gss, team_headers, outVars, fnVars>>

Step_12_5 ==
    /\ At("12.5")
    /\ Emit("stu-team-shooting-efficiency_ratings.csv",
            write_csv(Rows(teams, heap), team_headers), teams)
    /\ Goto("done")
    /\ UNCHANGED <<envVars, heap, data, headers, players, idxVars, subsetVars, scorerVars,
                   gss, teamVars, fnVars>>

Next ==
    \/ Step_1_2 \/ Step_1_3 \/ Step_1_4 \/ Step_1_5
    \/ Step_2_1 \/ Step_2_2
    \/ Step_3_1 \/ Step_3_2 \/ Step_3_3 \/ Step_3_4 \/ Step_3_4w
    \/ Step_4_2 \/ Step_4_3
    \/ Step_5_2 \/ Step_5_3 \/ Step_5_5 \/ Step_5_6
    \/ Step_6_2 \/ Step_6_3 \/ Step_6_4
    \/ Step_7_2 \/ Step_7_3
    \/ Step_8_1 \/ Step_8_6
    \/ Step_9_2 \/ Step_9_3 \/ Step_9_4
    \/ Step_10_2 \/ Step_10_5 \/ Step_10_6
    \/ Step_11_2 \/ Step_11_3 \/ Step_11_8
    \/ Step_12_1 \/ Step_12_3 \/ Step_12_4 \/ Step_12_5

Spec == Init /\ [][Next]_vars

\* ------------------------------------------------- helpers called alone
\* A second specification calls the helper functions on arguments drawn
\* from bounded sets.  Its rows are [Squad, Gls, Sh, SoT].
ScorerRows == {<<s_A, g, s_1, s_1>> : g \in {s_m1, s_0, s_1, s_2}}
SquadRows == {<<n, s_0, s_0, s_0>> : n \in {s_A, s_a, s_B}}
TeamRows == {<<n>> \o t : n \in {s_A, s_a, s_B},
                          t \in {<<s_0, s_0, s_0>>, <<s_1, s_10, s_4>>, <<s_2, s_5, s_2>>,
                                 <<s_2, s_3, s_0>>}}

\* a team record whose two rates are k/1000
RateRecord(country, k) ==
    <<country, k, Pow10(RatePrecision), Pow10(RatePrecision), k, k>>

FnUnset ==
    /\ csv_in = <<>> /\ debug = TRUE /\ exc = "None"
    /\ data = <<>> /\ headers = 0 /\ pos_idx = -1
    /\ squad_idx = 0 /\ gls_idx = 1 /\ slice_ = <<1, 4>>
    /\ multi_position_players = <<>> /\ team_china = <<>> /\ team_morocco = <<>>
    /\ countries = <<>> /\ top_scorers = <<>> /\ team_top_scorers = <<>>
    /\ gss = <<>> /\ team_headers = <<>>
    /\ files = <<>> /\ handed = <<>>
    /\ result = <<>>

FnInit ==
    /\ FnUnset
    /\ \/ /\ pc = "call calculate_shot_conversion_rate"
          /\ args \in (-1..MaxGoals) \X (-1..MaxShots) \X (0..MaxPrecision)
          /\ heap = <<>> /\ players = <<>> /\ teams = <<>>
       \/ /\ pc = "call get_top_scorer"
          /\ \E n \in 0..MaxRows : heap \in [1..n -> ScorerRows]
          /\ players = [i \in 1..Len(heap) |-> i]
          /\ args = <<>> /\ teams = <<>>
       \/ /\ pc = "call get_team_names"
          /\ \E n \in 0..MaxRows : heap \in [1..n -> SquadRows]
          /\ players = [i \in 1..Len(heap) |-> i]
          /\ args = <<>> /\ teams = <<>>
       \/ /\ pc = "call build_teams"
          /\ \E n \in 0..MaxRows : heap \in [1..n -> TeamRows]
          /\ players = [i \in 1..Len(heap) |-> i]
          /\ args = <<>> /\ teams = <<>>
       \/ /\ pc = "call rate_teams"
          /\ \E k \in 0..MaxRate :
                 heap = <<RateRecord(s_B, k), RateRecord(s_A, MaxRate \div 2)>>
          /\ teams = <<1, 2>>
          /\ players = <<>> /\ args = <<>>

Call_calculate_shot_conversion_rate ==
    /\ At("call calculate_shot_conversion_rate")
    /\ result' = calculate_shot_conversion_rate(args[1], args[2], args[3])
    /\ exc' = result'.exc
    /\ pc' = "return calculate_shot_conversion_rate"
    /\ UNCHANGED <<envVars, heap, data, headers, players, idxVars, subsetVars, scorerVars,
                   gss, teamVars, outVars, args>>

Call_get_top_scorer ==
    /\ At("call get_top_scorer")
    /\ result' = get_top_scorer(players, gls_idx, heap)
    /\ exc' = result'.exc
    /\ pc' = "return get_top_scorer"
    /\ UNCHANGED <<envVars, heap, data, headers, players, idxVars, subsetVars, scorerVars,
                   gss, teamVars, outVars, args>>

Call_get_team_names ==
    /\ At("call get_team_names")
    /\ result' = Ok(get_team_names(players, squad_idx, heap))
    /\ Goto("return get_team_names")
    /\ UNCHANGED <<envVars, heap, data, headers, players, idxVars, subsetVars, scorerVars,
                   gss, teamVars, outVars, args>>

\* 11.3-7
Call_build_teams ==
    /\ At("call build_teams")
    /\ LET r == build_teams(players, squad_idx, slice_, heap, gss)
       IN /\ heap' = r.H
          /\ teams' = r.teams
          /\ gss' = r.gss
          /\ IF r.ok THEN Goto("call rate_teams") ELSE Fail(r.exc)
    /\ UNCHANGED <<envVars, data, headers, players, idxVars, subsetVars, scorerVars,
                   team_headers, outVars, fnVars>>

\* 12.1-2
Call_rate_teams ==
    /\ At("call rate_teams")
    /\ heap' = rate_teams(teams, heap)
    /\ Goto("call rank_teams")
    /\ UNCHANGED <<envVars, data, headers, players, idxVars, subsetVars, scorerVars, gss,
                   teamVars, outVars, fnVars>>

\* 12.4; args keeps the list that was sorted
Call_rank_teams ==
    /\ At("call rank_teams")
    /\ args' = teams
    /\ teams' = rank_teams(teams, heap)
    /\ Goto("return rank_teams")
    /\ UNCHANGED <<envVars, heap, data, headers, players, idxVars, subsetVars, scorerVars,
                   gss, team_headers, outVars, result>>

FnNext ==
    \/ Call_calculate_shot_conversion_rate
    \/ Call_get_top_scorer
    \/ Call_get_team_names
    \/ Call_build_teams
    \/ Call_rate_teams
    \/ Call_rank_teams

FnSpec == FnInit /\ [][FnNext]_vars

\* ================================================================ claims
EmissionOrder ==
    <<"stu-players.csv", "stu-players-multi_position.csv", "stu-team-china.csv",
      "stu-team-morocco.csv", "stu-team-top_scorers.csv",
      "stu-players-shooting_efficiency.csv", "stu-team-shooting_efficiency.csv",
      "stu-team-shooting-efficiency_ratings.csv">>
FirstFiles(k) == {EmissionOrder[i] : i \in 1..k}

RECURSIVE SumSeq(_)
SumSeq(q) == IF q = <<>> THEN 0 ELSE Head(q) + SumSeq(Tail(q))

IsPrefix(a, b) == Len(a) <= Len(b) /\ SubSeq(b, 1, Len(a)) = a

\* the goal count of a row of the table handed to get_top_scorer
GoalsOf(p) == ParseInt(heap[p][gls_idx + 1]).val

\* C1: get_top_scorer returns, in input order, exactly the rows whose goal
\* count equals the maximum of the list when that maximum is positive, the
\* empty list when no row has a positive goal count, and never a row with
\* zero goals.
C1_TopScorersAreTheMaximum ==
    pc = "return get_top_scorer" =>
        LET n == Len(players)
            all == {GoalsOf(players[i]) : i \in 1..n}
            best == IF all = {} THEN 0 ELSE CHOOSE m \in all : \A g \in all : g <= m
        IN /\ result.ok
           /\ result.val = IF best > 0
                           THEN SelectSeq(players, LAMBDA p : GoalsOf(p) = best)
                           ELSE <<>>
           /\ \A k \in 1..Len(result.val) : GoalsOf(result.val[k]) # 0

C1_Witness ==
    /\ pc = "return get_top_scorer"
    /\ Len(players) = 3
    /\ Len(result.val) = 2
    /\ \E i \in 1..3 : GoalsOf(players[i]) = 1 /\ ~Contains(result.val, players[i])

\* C2: every team record gets exactly one tier label, fixed by its on-target
\* conversion rate: >= 0.4 Top Tier, [0.3, 0.4) Upper Middle Tier,
\* [0.2, 0.3) Lower Middle Tier, < 0.2 Bottom Tier; a team with 1 goal and
\* 4 shots on target has rate 0.25 and is Lower Middle Tier.
C2_TierLadder ==
    pc \in {"call rank_teams", "return rank_teams"} =>
        \A i \in 1..Len(teams) :
            LET t == heap[teams[i]]
            IN /\ Len(t) = 7
               /\ t[6] >= 400 => t[7] = "Top Tier"
               /\ (t[6] >= 300 /\ t[6] < 400) => t[7] = "Upper Middle Tier"
               /\ (t[6] >= 200 /\ t[6] < 300) => t[7] = "Lower Middle Tier"
               /\ t[6] < 200 => t[7] = "Bottom Tier"
               /\ (t[2] = 1 /\ t[4] = 4) => (t[6] = 250 /\ t[7] = "Lower Middle Tier")

C2_Witness ==
    /\ pc = "return rank_teams"
    /\ Len(players) > 0
    /\ \E i \in 1..Len(teams) :
           LET t == heap[teams[i]]
           IN t[2] = 1 /\ t[4] = 4 /\ t[6] = 250 /\ t[7] = "Lower Middle Tier"

\* C3: the ranked team table is a permutation of the classified records,
\* each adjacent pair is in order (greater rate first, or equal rate and a
\* country name that is not greater), records equal on both keys keep their
\* input order, and ranking the result again returns it unchanged.
C3_RankedTable ==
    pc = "return rank_teams" =>
        LET n == Len(teams)
            rate(id) == heap[id][6]
            name(id) == heap[id][1]
            at(id) == CHOOSE k \in 1..n : teams[k] = id
        IN /\ Len(args) = n
           /\ \A id \in 1..Len(heap) :
                  Cardinality({k \in 1..n : teams[k] = id})
                      = Cardinality({k \in 1..n : args[k] = id})
           /\ \A k \in 1..(n - 1) :
                  \/ rate(teams[k]) > rate(teams[k + 1])
                  \/ /\ rate(teams[k]) = rate(teams[k + 1])
                     /\ ~StrLT(name(teams[k + 1]), name(teams[k]))
           /\ \A i \in 1..n : \A j \in 1..n :
                  (i < j /\ rate(args[i]) = rate(args[j]) /\ name(args[i]) = name(args[j]))
                      => at(args[i]) < at(args[j])
           /\ rank_teams(teams, heap) = teams

C3_Witness ==
    /\ pc = "return rank_teams"
    /\ Len(teams) = 3
    /\ args # teams
    /\ heap[teams[1]][6] > heap[teams[2]][6]
    /\ heap[teams[2]][6] = heap[teams[3]][6]
    /\ StrLT(heap[teams[2]][1], heap[teams[3]][1])

\* C4: calculate_shot_conversion_rate never raises; with shots == 0 it
\* returns 0.0 whatever goals is, and no ZeroDivisionError leaves it to end
\* the computation that called it.
C4_ZeroShotsGiveZero ==
    /\ exc # "ZeroDivisionError"
    /\ pc = "return calculate_shot_conversion_rate" =>
           (result.ok /\ (args[2] = 0 => result.val = 0))

C4_Witness ==
    /\ pc = "return calculate_shot_conversion_rate"
    /\ args[1] > 0 /\ args[2] = 0
    /\ result.ok /\ result.val = 0

\* C8: get_team_names returns the team-field values of the input, each once
\* and as it appears, in the order of their first occurrences.
C8_DistinctTeamNames ==
    pc = "return get_team_names" =>
        LET out == result.val
            field(i) == heap[players[i]][squad_idx + 1]
            first(nm) == Min({i \in 1..Len(players) : field(i) = nm})
        IN /\ \A i \in 1..Len(out) : \A j \in 1..Len(out) : i # j => out[i] # out[j]
           /\ {out[i] : i \in 1..Len(out)} = {field(i) : i \in 1..Len(players)}
           /\ \A i \in 1..Len(out) : \A j \in 1..Len(out) :
                  i < j => first(out[i]) < first(out[j])

C8_Witness ==
    /\ pc = "return get_team_names"
    /\ Len(players) = 3
    /\ heap[players[1]][squad_idx + 1] = heap[players[3]][squad_idx + 1]
    /\ heap[players[1]][squad_idx + 1] # heap[players[2]][squad_idx + 1]
    /\ result.val = <<heap[players[1]][squad_idx + 1], heap[players[2]][squad_idx + 1]>>

\* the table handed to write_csv for file f, as it is now
TableNow(f) ==
    IF f = "stu-team-top_scorers.csv" THEN NestedRows(handed[f], heap)
    ELSE Rows(handed[f], heap)

\* the rows written to file f below its header row
TableEmitted(f) == Tail(files[f])

\* C5 as stated: no later stage changes a table handed to write_csv, nor any
\* row it contains.
C5_EmittedTablesUnchanged ==
    \A f \in DOMAIN files : TableNow(f) = TableEmitted(f)

\* C5 as amended: a table handed to write_csv keeps its rows, their order and
\* every field that was emitted; later stages only append fields to the end
\* of its rows.
C5_EmittedFieldsKept ==
    \A f \in DOMAIN files :
        LET now == TableNow(f)
            was == TableEmitted(f)
        IN /\ Len(now) = Len(was)
           /\ \A i \in 1..Len(was) :
                  IF f = "stu-team-top_scorers.csv"
                  THEN /\ Len(now[i]) = Len(was[i])
                       /\ \A j \in 1..Len(was[i]) : IsPrefix(was[i][j], now[i][j])
                  ELSE IsPrefix(was[i], now[i])

C5_Witness ==
    /\ pc = "done"
    /\ TableNow("stu-players.csv") # TableEmitted("stu-players.csv")
    /\ TableNow("stu-team-china.csv") # TableEmitted("stu-team-china.csv")
    /\ TableNow("stu-team-shooting_efficiency.csv")
           # TableEmitted("stu-team-shooting_efficiency.csv")

\* C6 as stated: a run emits all eight tables, or fails on a non-integer
\* Gls/Sh/SoT field or a missing column with no table emitted.
C6_AllOrNothing ==
    /\ pc = "done" => DOMAIN files = Files
    /\ exc = "ValueError" => DOMAIN files = {}

\* C6 as amended: a run that completes has emitted all eight tables; a run
\* that fails keeps the tables emitted before the failing step: none for a
\* missing Pos or Squad column, the first four for a missing Gls column or a
\* non-integer Gls field, the first five for a non-integer Sh or SoT field.
C6_FailureKeepsEarlierTables ==
    /\ pc = "done" => DOMAIN files = Files
    /\ exc = "ValueError" =>
           /\ pc \in {"3.1", "7.2", "7.3", "9.3", "10.2"}
           /\ pc = "3.1" => DOMAIN files = {}
           /\ pc \in {"7.2", "7.3"} => DOMAIN files = FirstFiles(4)
           /\ pc \in {"9.3", "10.2"} => DOMAIN files = FirstFiles(5)

C6_Witness ==
    /\ exc = "ValueError"
    /\ pc = "10.2"
    /\ DOMAIN files = FirstFiles(5)

\* C7: in every emitted table each row has as many fields as the header row
\* emitted with it.
C7_RowArity ==
    \A f \in DOMAIN files :
        \A i \in 1..Len(files[f]) : Len(files[f][i]) = Len(files[f][1])

\* the column of the input file named c, and the input fields of player i
InputColumn(c) == ListIndex(csv_in[1], c).val + 1
InputField(i, c) == csv_in[i + 1][InputColumn(c)]

StepsFrom(l) ==
    LET order == <<"1.2", "1.3", "1.4", "1.5", "2.1", "2.2", "3.1", "3.2", "3.3", "3.4",
                   "3.4w", "4.2", "4.3", "5.2", "5.3", "5.5", "5.6", "6.2", "6.3", "6.4",
                   "7.2", "7.3", "8.1", "8.6", "9.2", "9.3", "9.4", "10.2", "10.5", "10.6",
                   "11.2", "11.3", "11.8", "12.1", "12.3", "12.4", "12.5", "done">>
        k == Min({i \in 1..Len(order) : order[i] = l})
    IN {order[i] : i \in k..Len(order)}

\* C9: wherever main() uses pos_idx, squad_idx, gls_idx or slice_, it names
\* the Pos, Squad, Gls column and the Gls, Sh, SoT columns of the header and
\* of every player row: before the Country_Code column is inserted, after it
\* is, and after the two efficiency columns are appended.
C9_IndicesInSync ==
    /\ pc = "3.2" =>
           /\ heap[headers][pos_idx + 1] = "Pos"
           /\ heap[headers][squad_idx + 1] = "Squad"
           /\ \A i \in 1..Len(players) :
                  /\ heap[players[i]][pos_idx + 1] = InputField(i, "Pos")
                  /\ heap[players[i]][squad_idx + 1] = InputField(i, "Squad")
    /\ pc \in StepsFrom("3.4w") =>
           /\ heap[headers][pos_idx + 1] = "Pos"
           /\ heap[headers][squad_idx + 1] = "Squad"
           /\ heap[headers][squad_idx] = "Country_Code"
           /\ \A i \in 1..Len(players) :
                  /\ heap[players[i]][pos_idx + 1] = format_player_position(InputField(i, "Pos"))
                  /\ heap[players[i]][squad_idx + 1] = PySlice(InputField(i, "Squad"), 3, 100)
                  /\ heap[players[i]][squad_idx] = str_upper(PySlice(InputField(i, "Squad"), 0, 2))
    /\ pc \in StepsFrom("7.3") =>
           /\ heap[headers][gls_idx + 1] = "Gls"
           /\ \A i \in 1..Len(players) : heap[players[i]][gls_idx + 1] = InputField(i, "Gls")
    /\ pc \in StepsFrom("9.3") =>
           /\ PySlice(heap[headers], slice_[1], slice_[2]) = <<"Gls", "Sh", "SoT">>
           /\ \A i \in 1..Len(players) :
                  PySlice(heap[players[i]], slice_[1], slice_[2])
                      = <<InputField(i, "Gls"), InputField(i, "Sh"), InputField(i, "SoT")>>

C9_Witness ==
    /\ pc = "done"
    /\ Len(heap[headers]) = 13
    /\ pos_idx = 2 /\ squad_idx = 4 /\ gls_idx = 8 /\ slice_ = <<8, 11>>
    /\ \A i \in 1..Len(players) : Len(heap[players[i]]) = 13

\* C10: the team records count every player row exactly once: the goals, the
\* shots and the shots on target summed over the team records equal those
\* summed over the player rows.
C10_EveryPlayerCountedOnce ==
    pc \in StepsFrom("11.8") =>
        \A c \in 1..3 :
            SumSeq([i \in 1..Len(teams) |-> heap[teams[i]][c + 1]])
                = SumSeq([i \in 1..Len(players) |->
                             ParseInt(heap[players[i]][gls_idx + c]).val])

====
